---------------------------- MODULE Spec2Model ----------------------------
(***************************************************************************)
(* Zypin MCP server: the tool dispatcher (index.js), the tool catalog      *)
(* (tools.js) and the lazily launched browser session (browser.js).        *)
(*                                                                         *)
(* Node runs one callback at a time.  A call is a task that runs           *)
(* synchronously until it awaits an operation of the automation engine     *)
(* (Playwright) or of the template generator; the engine's answer resumes  *)
(* it.  An await of a promise that is already settled (ensureLaunched on a *)
(* launched browser, close on a closed one) resumes in the same turn.      *)
(* Messages are sequences of string fragments, so that a template literal  *)
(* is a concatenation.                                                     *)
(***************************************************************************)
EXTENDS Integers, Sequences, FiniteSets, TLC

VARIABLES
    browser,        \* SimpleBrowser.browser: 0 is null, else the engine's id
    context,        \* SimpleBrowser.context: 0 is null, else its engine's id
    page,           \* SimpleBrowser.page: 0 is null, else its engine's id
    engines,        \* engines launched so far: id -> "live" | "closed"
    closeCalls,     \* id -> how many times Browser.close() was invoked on it
    launchCalls,    \* how many times browserType.launch() was invoked
    tasks,          \* slot -> the call in flight in that slot
    last,           \* the call that ended in the last step, with its outcome
    exited,         \* "running" | "exit0" | "uncaught"
    nCalls,         \* calls started so far
    tools,          \* the catalog createTools(browser) returned
    boot,           \* the start of the process: its flags, its config file,
                    \* the config it built and what launch read of it
    dispatch,       \* the tools/call request of the last step, if any, and
                    \* the arguments of each handler invocation it made
    hist,           \* what has happened: "overlap", "close", "launch",
                    \* "openFailed"
    pages,          \* id -> the page of that engine: the default timeouts
                    \* set on it so far and its document
    answer          \* what a method of the session ended with in the last
                    \* step, if any, and the slot of its caller: the failure
                    \* it threw, or the snapshot it returned

vars == <<browser, context, page, engines, closeCalls, launchCalls, tasks,
          last, exited, nCalls, tools, boot, dispatch, hist, pages, answer>>

(* Bounds of the model *)
MaxTasks == 2
MaxCalls == 3
MaxLaunch == 3
MaxFields == 2
MaxNodes == 2

Slots == 1..MaxTasks

(***************************************************************************)
(* The catalog, in registration order.                                     *)
(***************************************************************************)
ToolNames ==
    << "navigate", "go_back", "go_forward", "reload", "click", "type",
       "select", "fill_form", "snapshot", "screenshot", "get_text",
       "get_url", "get_title", "wait_for", "evaluate", "close",
       "show_available_templates", "create_test_project" >>

TemplateTools == {"show_available_templates", "create_test_project"}

(* Names a host may ask for that the catalog does not hold. *)
UnknownNames == {"nonexistent", "Navigate"}

Signals == {"SIGINT", "SIGTERM"}

(* The description of each descriptor *)
Description(name) ==
    CASE name = "navigate"   -> "Navigate to a URL"
      [] name = "go_back"    -> "Go back to the previous page"
      [] name = "go_forward" -> "Go forward to the next page"
      [] name = "reload"     -> "Reload the current page"
      [] name = "click"      -> "Click an element on the page"
      [] name = "type"       -> "Type text into an input field"
      [] name = "select"     -> "Select an option from a dropdown"
      [] name = "fill_form"  -> "Fill multiple form fields at once"
      [] name = "snapshot"   -> "Get a snapshot of the current page with interactive elements"
      [] name = "screenshot" -> "Take a screenshot of the current page"
      [] name = "get_text"   -> "Get text content from an element"
      [] name = "get_url"    -> "Get the current page URL"
      [] name = "get_title"  -> "Get the current page title"
      [] name = "wait_for"   -> "Wait for an element to appear on the page"
      [] name = "evaluate"   -> "Run JavaScript code on the page"
      [] name = "close"      -> "Close the browser"
      [] name = "show_available_templates" ->
                "Show available Zypin templates and let user choose"
      [] name = "create_test_project" ->
                "Create test project with selected template"

(* A schema that declares no property *)
Properties_None(name) == {}

(* The keys of inputSchema.properties of each descriptor *)
Properties(name) ==
    CASE name = "navigate"   -> {"url"}
      [] name = "click"      -> {"selector"}
      [] name = "type"       -> {"selector", "text"}
      [] name = "select"     -> {"selector", "value"}
      [] name = "fill_form"  -> {"fields"}
      [] name = "screenshot" -> {"filename"}
      [] name = "get_text"   -> {"selector"}
      [] name = "wait_for"   -> {"selector", "timeout"}
      [] name = "evaluate"   -> {"script"}
      [] name = "show_available_templates" -> {"projectName"}
      [] name = "create_test_project" ->
                {"projectName", "template", "workingDirectory"}
      [] OTHER -> {}

(* inputSchema.required of each descriptor *)
Required(name) ==
    CASE name = "navigate"   -> <<"url">>
      [] name = "click"      -> <<"selector">>
      [] name = "type"       -> <<"selector", "text">>
      [] name = "select"     -> <<"selector", "value">>
      [] name = "fill_form"  -> <<"fields">>
      [] name = "get_text"   -> <<"selector">>
      [] name = "wait_for"   -> <<"selector">>
      [] name = "evaluate"   -> <<"script">>
      [] name = "show_available_templates" -> <<"projectName">>
      [] name = "create_test_project" ->
                <<"projectName", "template", "workingDirectory">>
      [] OTHER -> << >>

Descriptor(name) ==
    [name        |-> name,
     description |-> Description(name),
     inputSchema |-> [type       |-> "object",
                      properties |-> Properties(name),
                      required   |-> Required(name)],
     handler     |-> <<"handler of ", name>>]

(* createTools(browser): one descriptor per name, in registration order *)
createTools == [i \in 1..Len(ToolNames) |-> Descriptor(ToolNames[i])]

(* tools.find(t => t.name === toolName): the first index, 0 when absent *)
FindTool(name) ==
    IF \E i \in 1..Len(tools) : tools[i].name = name
    THEN CHOOSE i \in 1..Len(tools) :
            /\ tools[i].name = name
            /\ \A j \in 1..(i - 1) : tools[j].name # name
    ELSE 0

(* A listing that passes each descriptor on as it is *)
ListEntry_WithHandler(tool) == tool

(* What tools/list shows of a descriptor *)
ListEntry(tool) ==
    [name        |-> tool.name,
     description |-> tool.description,
     inputSchema |-> tool.inputSchema]

(* tools.map(tool => ({name, description, inputSchema})) *)
ListResult(catalog) == [i \in 1..Len(catalog) |-> ListEntry(catalog[i])]

(***************************************************************************)
(* Messages                                                                *)
(***************************************************************************)
NoErr == <<>>

(* What the engine or the generator may reject with. *)
EngineErrors == { <<"boom">>, <<"Timeout 30000ms exceeded">> }

TargetClosed == <<"Target page, context or browser has been closed">>

UnknownToolError(name) == <<"Unknown tool: ", name>>

LaunchError(m) == <<"Failed to launch browser: ">> \o m

NullRead(method) == <<"Cannot read properties of null (reading '", method, "')">>

EntriesError == <<"Cannot convert undefined or null to object">>

Contains(msg, s) == \E i \in 1..Len(msg) : msg[i] = s


(***************************************************************************)
(* SimpleBrowser's methods as programs: the awaits of a method in order.   *)
(*   E  await this.ensureLaunched()      L  await this.launch()            *)
(*   P  await this.page.m(...)           U  this.page.m()  (synchronous)   *)
(*   C  await this.close()               X  process.exit(0)                *)
(*   T  a synchronous throw with message m                                 *)
(***************************************************************************)
I(k, m) == [k |-> k, m |-> m]

Primitive(method) == << I("E", <<>>), I("P", <<method>>) >>

(* navigate(url): this.page.goto(url, { waitUntil: 'networkidle' }) *)
Navigate(url) ==
    << I("E", <<>>), [k |-> "P", m |-> <<"goto">>, url |-> url] >>

(* A mapping is the sequence of its <<key, value>> pairs in the order they  *)
(* were inserted.  The keys that are array indices, and their values.       *)
ArrayIndex(key) ==
    CASE key = "0" -> 0
      [] key = "1" -> 1
      [] key = "2" -> 2
      [] OTHER     -> -1

IndexEntries(fields) ==
    SelectSeq(fields, LAMBDA e : ArrayIndex(e[1]) >= 0)

NamedEntries(fields) ==
    SelectSeq(fields, LAMBDA e : ArrayIndex(e[1]) < 0)

(* Object.entries: the array-index keys in ascending order, then the other  *)
(* keys in insertion order                                                  *)
ObjectEntries(fields) ==
    SortSeq(IndexEntries(fields),
            LAMBDA a, b : ArrayIndex(a[1]) < ArrayIndex(b[1]))
    \o NamedEntries(fields)

(* A loop that fills the entries from the last to the first *)
Fills_Reversed(entries) ==
    [i \in 1..Len(entries) |->
        [k |-> "P", m |-> <<"fill">>,
         sel |-> entries[Len(entries) + 1 - i][1],
         val |-> entries[Len(entries) + 1 - i][2]]]

(* for (const [selector, value] of ...) await this.page.fill(selector, value) *)
Fills(entries) ==
    [i \in 1..Len(entries) |->
        [k |-> "P", m |-> <<"fill">>, sel |-> entries[i][1], val |-> entries[i][2]]]

(* A fillForm that looks at its argument before it ensures the launch *)
FillForm_ChecksFirst(args) ==
    IF "fields" \notin DOMAIN args THEN << I("T", EntriesError) >>
    ELSE << I("E", <<>>) >> \o Fills(ObjectEntries(args.fields))

(* fillForm(fields): Object.entries(undefined) throws *)
FillForm(args) ==
    << I("E", <<>>) >> \o
    (IF "fields" \notin DOMAIN args THEN << I("T", EntriesError) >>
     ELSE Fills(ObjectEntries(args.fields)))

(* A waitFor that ignores its timeout parameter *)
WaitFor_DefaultOnly(args) ==
    << I("E", <<>>),
       [k |-> "P", m |-> <<"waitForSelector">>, timeout |-> 5000] >>

(* wait_for: async ({ selector, timeout = 5000 }) => browser.waitFor(...),  *)
(* and waitFor: this.page.waitForSelector(selector, { timeout })            *)
WaitFor(args) ==
    << I("E", <<>>),
       [k |-> "P", m |-> <<"waitForSelector">>,
        timeout |-> IF "timeout" \in DOMAIN args THEN args.timeout ELSE 5000] >>

GetUrl == << I("E", <<>>), I("U", <<"url">>) >>

GetTitle == Primitive("title")

(* snapshot: the url, the title, then the callback that lists the          *)
(* interactive elements, evaluated in the page                             *)
Snapshot ==
    << I("E", <<>>) >> \o GetUrl \o GetTitle \o
    << [k |-> "P", m |-> <<"evaluate">>, fn |-> "interactive elements"] >>

Close == << I("C", <<>>) >>

(* The browser call each tool handler makes. *)
Program(name, args) ==
    CASE name = "navigate"   ->
            Navigate(IF "url" \in DOMAIN args THEN args.url ELSE "undefined")
      [] name = "go_back"    -> Primitive("goBack")
      [] name = "go_forward" -> Primitive("goForward")
      [] name = "reload"     -> Primitive("reload")
      [] name = "click"      -> Primitive("click")
      [] name = "type"       -> Primitive("fill")
      [] name = "select"     -> Primitive("selectOption")
      [] name = "fill_form"  -> FillForm(args)
      [] name = "snapshot"   -> Snapshot
      [] name = "screenshot" -> Primitive("screenshot")
      [] name = "get_text"   -> Primitive("textContent")
      [] name = "get_url"    -> GetUrl
      [] name = "get_title"  -> GetTitle
      [] name = "wait_for"   -> WaitFor(args)
      [] name = "evaluate"   -> Primitive("evaluate")
      [] name = "close"      -> Close
      [] name = "launch()"   -> << I("L", <<>>) >>
      [] name \in Signals    -> << I("C", <<>>), I("X", <<>>) >>
      [] OTHER               -> << >>

(***************************************************************************)
(* What each handler returns once its browser call has returned.           *)
(***************************************************************************)
Ok(message) == [success |-> TRUE, message |-> message]

OkData(data, message) == [success |-> TRUE, data |-> data, message |-> message]

HandlerResult(name, nf) ==
    CASE name = "navigate"   -> Ok(<<"Navigated to ", "${url}">>)
      [] name = "go_back"    -> Ok(<<"Went back to previous page">>)
      [] name = "go_forward" -> Ok(<<"Went forward to next page">>)
      [] name = "reload"     -> Ok(<<"Page reloaded">>)
      [] name = "click"      -> Ok(<<"Clicked element: ", "${selector}">>)
      [] name = "type"       -> Ok(<<"Typed \"", "${text}", "\" into ", "${selector}">>)
      [] name = "select"     -> Ok(<<"Selected \"", "${value}", "\" in ", "${selector}">>)
      [] name = "fill_form"  -> Ok(<<"Filled ", ToString(nf), " form fields">>)
      [] name = "snapshot"   -> OkData(<<"snapshot">>, <<"Page snapshot captured for ", "${snapshot.url}">>)
      [] name = "screenshot" -> Ok(<<"Screenshot saved to ", "${path}">>)
      [] name = "get_text"   -> OkData(<<"text">>, <<"Got text from ", "${selector}">>)
      [] name = "get_url"    -> OkData(<<"url">>, <<"Current URL: ", "${url}">>)
      [] name = "get_title"  -> OkData(<<"title">>, <<"Page title: ", "${title}">>)
      [] name = "wait_for"   -> Ok(<<"Element ", "${selector}", " appeared within ", "${timeout}", "ms">>)
      [] name = "evaluate"   -> OkData(<<"result">>, <<"JavaScript executed successfully">>)
      [] name = "close"      -> Ok(<<"Browser closed">>)
      [] OTHER               -> Ok(<<>>)

(***************************************************************************)
(* The scaffolding tools.  The generator's help text is the sequence of    *)
(* package/template names its lines match, repeats included.               *)
(***************************************************************************)
HelpOutputs ==
    { << >>,
      << "selenium/basic-webdriver", "selenium/cucumber-bdd", "selenium/basic-webdriver" >>,
      << "playwright/basic" >> }

TemplateArgs == {"selenium/basic-webdriver", "invalid/template"}

Fallback == << "selenium/basic-webdriver", "selenium/cucumber-bdd" >>

(* parseTemplatesFromHelp: each name once, in order of first appearance *)
RECURSIVE ParseTemplates(_)
ParseTemplates(out) ==
    IF out = << >> THEN << >>
    ELSE LET front == ParseTemplates(SubSeq(out, 1, Len(out) - 1))
             name  == out[Len(out)]
         IN  IF Contains(front, name) THEN front ELSE Append(front, name)

(* A validation that accepts every template *)
TemplateExists_Always(tpl, template) == TRUE

(* availableTemplates.some(t => t.name === template) *)
TemplateExists(tpl, template) == Contains(tpl, template)

ShowResult(tpl) ==
    [success |-> TRUE, data |-> tpl,
     message |-> <<"Available Templates:">> \o tpl]

ShowFailure(m) ==
    [success |-> FALSE, message |-> <<"Error getting template list: ">> \o m]

TemplateMissing(tpl, template) ==
    [success |-> FALSE,
     message |-> <<"Template \"", template, "\" does not exist!">>,
     data    |-> <<template>> \o tpl]

CreateResult(template) ==
    [success |-> TRUE,
     message |-> <<"Project \"", "${projectName}", "\" created successfully with template ", template>>,
     data    |-> <<"projectPath", template>>]

CreateFailure(m) ==
    [success |-> FALSE, message |-> <<"Error creating project: ">> \o m]

(***************************************************************************)
(* The dispatcher's responses (CallToolRequestSchema handler).             *)
(***************************************************************************)
Undefined == <<"undefined">>

(* JSON.stringify of an object: a key whose value is undefined is left out *)
JSONstringify(v) ==
    [k \in {j \in DOMAIN v : j = "success" \/ v[j] # Undefined} |-> v[k]]

(* A dispatcher that flags every envelope with success: false *)
OkResponse_FlagsSoftFailure(result) ==
    [content |-> JSONstringify(result), isError |-> ~result.success]

OkResponse(result) == [content |-> JSONstringify(result)]

ErrorResponse(msg) ==
    [content |-> JSONstringify([success |-> FALSE, error |-> msg]),
     isError |-> TRUE]

(* A call's outcome: nothing yet, a response, or an error thrown to the caller *)
NoOutcome == [kind |-> "none"]

Responded(resp) == [kind |-> "response", resp |-> resp]

Thrown(msg) == [kind |-> "thrown", msg |-> msg]


(***************************************************************************)
(* Arguments.  A request carries an argument object or none.               *)
(***************************************************************************)
EmptyObject == [k \in {} |-> ""]

NoArguments == [supplied |-> FALSE]

Arguments(obj) == [supplied |-> TRUE, obj |-> obj]

(* A mapping of nf fields *)
SomeFields(nf) ==
    SubSeq(<< <<"#a", "x">>, <<"#b", "y">>, <<"#c", "z">> >>, 1, nf)

(* What a host sends with each tool: nothing, an empty object, or the      *)
(* fields of the schema.                                                   *)
GivenArgs(name) ==
    {NoArguments} \cup
    CASE name = "navigate"  -> {Arguments([url |-> "https://example.com"])}
      [] name = "get_text"  -> {Arguments(EmptyObject),
                                Arguments([selector |-> "h1"])}
      [] name = "fill_form" ->
            {Arguments(EmptyObject)} \cup
            {Arguments([fields |-> SomeFields(nf)]) : nf \in 0..MaxFields}
      [] name = "wait_for" ->
            {Arguments(EmptyObject), Arguments([selector |-> "h1"]),
             Arguments([selector |-> "h1", timeout |-> 1000])}
      [] name = "create_test_project" ->
            {Arguments([projectName |-> "p", template |-> tmpl,
                        workingDirectory |-> "/tmp"]) : tmpl \in TemplateArgs}
      [] name = "show_available_templates" ->
            {Arguments([projectName |-> "p"])}
      [] OTHER -> {Arguments(EmptyObject)}

(* No tools/call request in this step *)
NoDispatch == [name |-> "", given |-> NoArguments, invoked |-> << >>]

(* A dispatcher that passes an empty object whatever the caller sent *)
Received_Dropped(given) == EmptyObject

(* request.params.arguments || {} *)
Received(given) == IF given.supplied THEN given.obj ELSE EmptyObject

(* async ({ fields }) => ...: Object.keys(fields).length, -1 for undefined *)
FieldsOf(args) == IF "fields" \in DOMAIN args THEN Len(args.fields) ELSE -1

(* async ({ projectName, template, workingDirectory }) => ... *)
TemplateOf(args) ==
    IF "template" \in DOMAIN args THEN args.template ELSE "undefined"

(***************************************************************************)
(* Calls                                                                   *)
(***************************************************************************)
NoOp == I("", << >>)

(* op is the page operation the call awaits, fields the mapping it fills;  *)
(* closedOver records that close() ran to completion while the call was    *)
(* suspended at an await                                                   *)
Idle ==
    [name |-> "", nf |-> 0, tmpl |-> "", pc |-> "idle", prog |-> << >>,
     h |-> 0, tpl |-> << >>, out |-> NoOutcome, err |-> NoErr,
     op |-> NoOp, fields |-> << >>, closedOver |-> FALSE]

Free(s) == tasks[s].pc = "idle"

Pending(s) == ~Free(s)

SomePending == \E s \in Slots : Pending(s)

(* The call has ended: out is its outcome, err what its handler threw *)
Done(t, out, err) ==
    [Idle EXCEPT !.pc = "done", !.name = t.name, !.out = out, !.err = err,
                 !.closedOver = t.closedOver]

(* The handler returned result: the try block of the dispatcher *)
HandlerReturns(t, result) == Done(t, Responded(OkResponse(result)), NoErr)

(* A dispatcher whose catch block throws the error on *)
HandlerThrows_Rethrown(t, msg) == Done(t, Thrown(msg), msg)

(* The handler threw: the catch block of the dispatcher.  launch() called  *)
(* directly and a signal handler have no dispatcher around them.           *)
HandlerThrows(t, msg) ==
    IF FindTool(t.name) # 0
    THEN Done(t, Responded(ErrorResponse(msg)), msg)
    ELSE Done(t, Thrown(msg), msg)

(* An ensureLaunched that launches on every call *)
NeedsLaunch_Always(br) == TRUE

(* ensureLaunched: launch only when there is no browser *)
NeedsLaunch(br) == br = 0

(* A close that calls the engine whatever the state *)
NeedsClose_Always(br) == TRUE

(* close: call the engine only when there is a browser *)
NeedsClose(br) == br # 0

(***************************************************************************)
(* Run a program from its first instruction up to its next real await,     *)
(* with this.browser = br and this.page = pg.                              *)
(***************************************************************************)
RECURSIVE Run(_, _, _)
Run(prog, br, pg) ==
    IF prog = << >>
    THEN [pc |-> "return", prog |-> << >>, h |-> 0, msg |-> NoErr]
    ELSE LET i    == Head(prog)
             rest == Tail(prog)
         IN  CASE i.k = "E" ->
                    IF NeedsLaunch(br)
                    THEN [pc |-> "launch", prog |-> rest, h |-> 0, msg |-> NoErr]
                    ELSE Run(rest, br, pg)
               [] i.k = "L" ->
                    [pc |-> "launch", prog |-> rest, h |-> 0, msg |-> NoErr]
               [] i.k = "U" ->
                    IF pg = 0
                    THEN [pc |-> "throw", prog |-> << >>, h |-> 0, msg |-> NullRead(i.m[1])]
                    ELSE Run(rest, br, pg)
               [] i.k = "P" ->
                    IF pg = 0
                    THEN [pc |-> "throw", prog |-> << >>, h |-> 0, msg |-> NullRead(i.m[1])]
                    ELSE [pc |-> "page", prog |-> rest, h |-> pg, msg |-> NoErr,
                          op |-> i]
               [] i.k = "C" ->
                    IF NeedsClose(br)
                    THEN [pc |-> "closing", prog |-> rest, h |-> br, msg |-> NoErr]
                    ELSE Run(rest, br, pg)
               [] i.k = "X" ->
                    [pc |-> "exit", prog |-> << >>, h |-> 0, msg |-> NoErr]
               [] OTHER ->
                    [pc |-> "throw", prog |-> << >>, h |-> 0, msg |-> i.m]

(* A handler that catches what its browser call throws and answers with an *)
(* envelope of its own                                                     *)
Uncaught_Caught(t, msg) ==
    HandlerReturns(t, [success |-> FALSE, error |-> msg])

(* No handler has a try block around its browser call: what the call       *)
(* throws leaves the handler and reaches the caller's catch                *)
Uncaught(t, msg) == HandlerThrows(t, msg)

(* The call after the run r *)
After(t, r) ==
    CASE r.pc = "return" ->
            IF FindTool(t.name) # 0
            THEN HandlerReturns(t, HandlerResult(t.name, t.nf))
            ELSE Done(t, [kind |-> "returned"], NoErr)
      [] r.pc = "throw" -> Uncaught(t, r.msg)
      [] r.pc = "exit"  -> Done(t, [kind |-> "exited"], NoErr)
      [] OTHER -> [t EXCEPT !.pc = r.pc, !.prog = r.prog, !.h = r.h,
                            !.op = IF r.pc = "page" THEN r.op ELSE NoOp]

(* Whether the process goes on after the run r of call t *)
ExitAfter(t, r) ==
    CASE r.pc = "exit" -> "exit0"
      [] r.pc = "throw" /\ t.name \in Signals -> "uncaught"
      [] OTHER -> exited

(* The call t, the close tool or a signal handler, has ended with its      *)
(* close() run to completion                                               *)
CloseCompleted(t) ==
    /\ t.pc = "done"
    /\ t.name \in {"close"} \cup Signals
    /\ t.err = NoErr

(* The call o, suspended while the call t ends *)
Suspended(o, t) ==
    IF o.pc # "idle" /\ CloseCompleted(t)
    THEN [o EXCEPT !.closedOver = TRUE] ELSE o

(* Slot s holds t from now on; a call that has ended leaves its slot and   *)
(* is the step's outcome.  No handler assigns or changes the catalog.      *)
Step(s, t) ==
    /\ tools' = tools
    /\ boot' = boot
    /\ IF t.pc = "done"
       THEN /\ tasks' = [o \in Slots |->
                           IF o = s THEN Idle ELSE Suspended(tasks[o], t)]
            /\ last' = t
       ELSE /\ tasks' = [tasks EXCEPT ![s] = t]
            /\ last' = Idle

(***************************************************************************)
(* Slot s's call t goes on with prog, the session's fields being br, cx,   *)
(* pg and the engines eng: every variable but nCalls, dispatch and hist.   *)
(***************************************************************************)
Settle(s, t, prog, br, cx, pg, eng) ==
    LET r == Run(prog, br, pg) IN
    /\ r.pc = "launch" => launchCalls < MaxLaunch
    /\ browser' = br
    /\ context' = cx
    /\ page' = pg
    /\ engines' = eng
    /\ launchCalls' = IF r.pc = "launch" THEN launchCalls + 1 ELSE launchCalls
    /\ closeCalls' =
          LET cc == [e \in 1..Len(eng) |->
                        IF e <= Len(closeCalls) THEN closeCalls[e] ELSE 0]
          IN  IF r.pc = "closing" THEN [cc EXCEPT ![r.h] = @ + 1] ELSE cc
    /\ exited' = ExitAfter(t, r)
    /\ Step(s, After(t, r))

NoAnswer == [to |-> 0, msg |-> NoErr]

(* A failure that drops the handles of the session *)
Raise_Resetting(s, t, msg, eng) ==
    /\ answer' = [to |-> s, msg |-> msg]
    /\ Settle(s, t, << I("T", msg) >>, 0, 0, 0, eng)

(* Slot s's call t throws msg at the await it returns to *)
Raise(s, t, msg, eng) ==
    /\ answer' = [to |-> s, msg |-> msg]
    /\ Settle(s, t, << I("T", msg) >>, browser, context, page, eng)


(***************************************************************************)
(* Configuration.  A JavaScript value is a record with its type t; a       *)
(* number is NaN or an integer v.  The text of a flag is a sequence of     *)
(* characters.                                                             *)
(***************************************************************************)
Absent == [t |-> "undefined"]

Str(x) == [t |-> "string", s |-> x]

Bool(x) == [t |-> "boolean", b |-> x]

Num(n) == [t |-> "number", nan |-> FALSE, v |-> n]

NaN == [t |-> "number", nan |-> TRUE, v |-> 0]

Obj(w, h) == [t |-> "object", width |-> w, height |-> h]

(* ToBoolean *)
Truthy(x) ==
    CASE x.t = "boolean" -> x.b
      [] x.t = "number"  -> ~x.nan /\ x.v # 0
      [] x.t = "string"  -> x.s # ""
      [] x.t = "object"  -> TRUE
      [] OTHER           -> FALSE

(* a || b *)
Or(a, b) == IF Truthy(a) THEN a ELSE b

(* typeof x !== 'number' || x <= 0 *)
NotPositiveNumber(x) == x.t # "number" \/ (~x.nan /\ x.v <= 0)

(* x.width, x.height: undefined on anything but an object that has it *)
WidthOf(x) == IF x.t = "object" THEN x.width ELSE Absent

HeightOf(x) == IF x.t = "object" THEN x.height ELSE Absent

DigitChars == <<"0", "1", "2", "3", "4", "5", "6", "7", "8", "9">>

IsDigit(c) == \E i \in 1..10 : DigitChars[i] = c

DigitVal(c) == (CHOOSE i \in 1..10 : DigitChars[i] = c) - 1

(* The digits a text begins with *)
RECURSIVE LeadingDigits(_)
LeadingDigits(txt) ==
    IF txt = << >> \/ ~IsDigit(Head(txt)) THEN << >>
    ELSE <<Head(txt)>> \o LeadingDigits(Tail(txt))

RECURSIVE DecimalValue(_)
DecimalValue(ds) ==
    IF ds = << >> THEN 0
    ELSE 10 * DecimalValue(SubSeq(ds, 1, Len(ds) - 1)) + DigitVal(ds[Len(ds)])

RECURSIVE TrimStart(_)
TrimStart(txt) ==
    IF txt # << >> /\ Head(txt) = " " THEN TrimStart(Tail(txt)) ELSE txt

(* parseInt(text): blanks, a sign, then digits up to the first other       *)
(* character; NaN when there is no digit                                   *)
ParseInt(txt) ==
    LET body   == TrimStart(txt)
        signed == body # << >> /\ Head(body) \in {"-", "+"}
        ds     == LeadingDigits(IF signed THEN Tail(body) ELSE body)
    IN  IF ds = << >> THEN NaN
        ELSE IF signed /\ Head(body) = "-" THEN Num(0 - DecimalValue(ds))
        ELSE Num(DecimalValue(ds))

ValidBrowsers == {"chromium", "firefox", "webkit"}

createDefaultConfig ==
    [browser |-> Str("chromium"), headless |-> Bool(TRUE),
     viewport |-> [width |-> Num(1280), height |-> Num(720)],
     timeout |-> Num(30000)]

Valid(config) == [ok |-> TRUE, config |-> config, error |-> << >>]

Invalid(msg) == [ok |-> FALSE, config |-> createDefaultConfig, error |-> msg]

(* typeof config.viewport.width !== 'number' || config.viewport.width <= 0 *)
ViewportError(side, x) ==
    IF NotPositiveNumber(x)
    THEN <<"viewport.", side, " must be a positive number">>
    ELSE << >>

(* validateConfig(config): the first check that fails throws *)
validateConfig(c) ==
    IF Truthy(c.browser) /\ ~(c.browser.t = "string" /\ c.browser.s \in ValidBrowsers)
    THEN Invalid(<<"Invalid browser: ",
                   IF c.browser.t = "string" THEN c.browser.s ELSE "${config.browser}",
                   ". Must be one of: ", "chromium, firefox, webkit">>)
    ELSE IF c.headless.t # "undefined" /\ c.headless.t # "boolean"
    THEN Invalid(<<"headless must be a boolean">>)
    ELSE IF Truthy(c.viewport) /\ ViewportError("width", WidthOf(c.viewport)) # << >>
    THEN Invalid(ViewportError("width", WidthOf(c.viewport)))
    ELSE IF Truthy(c.viewport) /\ ViewportError("height", HeightOf(c.viewport)) # << >>
    THEN Invalid(ViewportError("height", HeightOf(c.viewport)))
    ELSE IF c.timeout.t # "undefined" /\ NotPositiveNumber(c.timeout)
    THEN Invalid(<<"timeout must be a positive number">>)
    ELSE Valid([browser  |-> Or(c.browser, Str("chromium")),
                headless |-> IF c.headless.t # "undefined"
                             THEN c.headless ELSE Bool(TRUE),
                viewport |-> [width  |-> Or(WidthOf(c.viewport), Num(1280)),
                              height |-> Or(HeightOf(c.viewport), Num(720))],
                timeout  |-> Or(c.timeout, Num(30000))])

(* The config main builds from the flags *)
ConfigFromOptions(o) ==
    [browser  |-> Or(Str(o.browser), Str("chromium")),
     headless |-> Bool(~o.headed),
     viewport |-> [width  |-> Or(ParseInt(o.width), Num(1280)),
                   height |-> Or(ParseInt(o.height), Num(720))],
     timeout  |-> Or(ParseInt(o.timeout), Num(30000))]

(* The earlier main: the defaults, overridden by every flag that is set *)
ConfigFromOverrides(o) ==
    [browser  |-> IF o.browser # "" THEN Str(o.browser) ELSE Str("chromium"),
     headless |-> Bool(~o.headed),
     viewport |-> [width  |-> IF o.width # << >> THEN ParseInt(o.width)
                              ELSE Num(1280),
                   height |-> IF o.height # << >> THEN ParseInt(o.height)
                              ELSE Num(720)],
     timeout  |-> IF o.timeout # << >> THEN ParseInt(o.timeout)
                  ELSE Num(30000)]

(* getBrowserType: anything but firefox and webkit is chromium *)
getBrowserType(config) ==
    IF config.browser = Str("firefox") THEN "firefox"
    ELSE IF config.browser = Str("webkit") THEN "webkit"
    ELSE "chromium"

(* parseConfig(configPath) of a file that cannot be read or parsed throws *)
parseConfig(file) ==
    IF file.readable THEN validateConfig(file.data)
    ELSE Invalid(<<"ENOENT: no such file or directory">>)

(* The flags as commander hands them over when none is given *)
DefaultOptions ==
    [browser |-> "chromium", headed |-> FALSE,
     width   |-> <<"1", "2", "8", "0">>, height |-> <<"7", "2", "0">>,
     timeout |-> <<"3", "0", "0", "0", "0">>, config |-> FALSE]

NoFile == [readable |-> FALSE, data |-> createDefaultConfig]

NoEngineOptions == [type |-> "", options |-> createDefaultConfig]

Booting(version, options, file) ==
    [phase |-> "start", version |-> version, options |-> options,
     file |-> file, config |-> createDefaultConfig, error |-> << >>,
     engine |-> NoEngineOptions]

Serving ==
    [Booting("index.js", DefaultOptions, NoFile)
       EXCEPT !.phase = "serving",
              !.config = ConfigFromOptions(DefaultOptions)]

(* The server is up, started with --timeout text *)
ServingWithTimeout(text) ==
    LET o == [DefaultOptions EXCEPT !.timeout = text] IN
    [Booting("index.js", o, NoFile)
       EXCEPT !.phase = "serving", !.config = ConfigFromOptions(o)]

(* What an operator may write after a numeric flag *)
FlagTexts ==
    { <<"8", "0", "0">>, <<"0">>, <<"-", "5">>, <<"a", "b", "c">>,
      <<" ", "1", "2", "p", "x">>, << >> }

FlagOptions ==
    [browser : {"chromium", "webkit", "opera", ""}, headed : BOOLEAN,
     width : FlagTexts, height : FlagTexts,
     timeout : FlagTexts \ {<<" ", "1", "2", "p", "x">>, <<"8", "0", "0">>},
     config : {FALSE}]

(* What a config file may hold *)
FileData ==
    [browser  : {Absent, Str("firefox"), Str("opera"), Str("")},
     headless : {Absent, Bool(FALSE), Str("yes")},
     viewport : {Absent} \cup
                {Obj(w, h) : w \in {Absent, Num(800), Num(0), Str("800")},
                             h \in {Absent, Num(600), Num(0 - 1)}},
     timeout  : {Absent, Num(5000), Num(0), Str("30")}]

Files == {NoFile} \cup {[readable |-> TRUE, data |-> d] : d \in FileData}

(***************************************************************************)
(* Pages.  A document is unknown (any operation on it may succeed) or      *)
(* known: the value of each of its form fields, by element.                *)
(***************************************************************************)
Unknown == [known |-> FALSE]

FormUrl == "data:text/html,<input id=a name=a><input id=b><input id=c>"

FormElements == {"a", "b", "c"}

(* The element of the form a selector matches, "" when it matches none *)
ElementOf(sel) ==
    CASE sel \in {"#a", "[name=a]"} -> "a"
      [] sel = "#b" -> "b"
      [] sel = "#c" -> "c"
      [] OTHER -> ""

(* The document a navigation to url loads *)
Document(url) ==
    IF url = FormUrl
    THEN [known |-> TRUE, fields |-> [el \in FormElements |-> ""]]
    ELSE Unknown

(* The engine's slot for a page that is not created yet *)
NoPage == [timeouts |-> << >>, doc |-> Unknown]

IsFill(op) == "sel" \in DOMAIN op

(* Whether the page operation op can succeed on the document: a fill needs *)
(* an element its selector matches                                         *)
CanAct(doc, op) ==
    doc.known /\ IsFill(op) => ElementOf(op.sel) \in DOMAIN doc.fields

(* A page whose fill changes nothing *)
Effect_Nothing(doc, op) ==
    IF "url" \in DOMAIN op THEN Document(op.url) ELSE doc

(* The document after op has succeeded *)
Effect(doc, op) ==
    IF "url" \in DOMAIN op THEN Document(op.url)
    ELSE IF doc.known /\ IsFill(op)
    THEN [doc EXCEPT !.fields[ElementOf(op.sel)] = op.val]
    ELSE doc

(***************************************************************************)
(* Elements.  A node of a document has a tag name in upper case, its text  *)
(* content, value and placeholder as sequences of characters (empty when   *)
(* the element has none), and its type, role, id and class.                *)
(***************************************************************************)
Node(tagName, text, value, placeholder, id, className, role, onclick) ==
    [tagName |-> tagName, textContent |-> text, value |-> value,
     placeholder |-> placeholder, type |-> IF tagName = "INPUT" THEN "text" ELSE "",
     role |-> role, id |-> id, className |-> className, onclick |-> onclick]

(* The elements of the test page, elements that match nothing or hold      *)
(* nothing, and a button for every combination of text content, value and  *)
(* placeholder                                                             *)
Nodes ==
    { Node("BUTTON", <<"T", "e", "s", "t">>, << >>, << >>, "test-button", "", "", FALSE),
      Node("INPUT", << >>, << >>, <<"T", "e", "s", "t">>, "test-input", "", "", FALSE),
      Node("A", <<"T", "e", "s", "t">>, << >>, << >>, "", "", "", FALSE),
      Node("DIV", <<"b", "o", "x">>, << >>, << >>, "box", "", "", FALSE),
      Node("DIV", << >>, << >>, << >>, "", "", "", TRUE),
      Node("INPUT", << >>, << >>, << >>, "", "", "", FALSE),
      Node("SPAN", << >>, << >>, << >>, "", "btn", "button", FALSE) }
    \cup
    { Node("BUTTON", text, value, placeholder, "b", "", "", FALSE) :
         text \in {<< >>, <<" ">>, <<" ", "t", " ">>},
         value \in {<< >>, <<"v">>},
         placeholder \in {<< >>, <<"p">>} }

RECURSIVE SeqsUpTo(_, _)
SeqsUpTo(S, n) ==
    IF n = 0 THEN { << >> }
    ELSE SeqsUpTo(S, n - 1) \cup
         {Append(q, x) : q \in SeqsUpTo(S, n - 1), x \in S}

Documents == SeqsUpTo(Nodes, MaxNodes)

(* 'a, button, input, select, textarea, [onclick], [role="button"]' *)
Interactive(el) ==
    \/ el.tagName \in {"A", "BUTTON", "INPUT", "SELECT", "TEXTAREA"}
    \/ el.onclick
    \/ el.role = "button"

(* document.querySelectorAll: the matching elements in document order *)
QuerySelectorAll(nodes) == SelectSeq(nodes, Interactive)

ToLowerCase(tagName) ==
    CASE tagName = "A" -> "a"
      [] tagName = "BUTTON" -> "button"
      [] tagName = "INPUT" -> "input"
      [] tagName = "SELECT" -> "select"
      [] tagName = "TEXTAREA" -> "textarea"
      [] tagName = "DIV" -> "div"
      [] tagName = "SPAN" -> "span"
      [] OTHER -> tagName

RECURSIVE TrimEnd(_)
TrimEnd(txt) ==
    IF txt # << >> /\ txt[Len(txt)] = " "
    THEN TrimEnd(SubSeq(txt, 1, Len(txt) - 1)) ELSE txt

Trim(txt) == TrimEnd(TrimStart(txt))

(* A label that prefers the value to the text content *)
Label_ValueFirst(el) ==
    IF el.value # << >> THEN el.value
    ELSE IF Trim(el.textContent) # << >> THEN Trim(el.textContent)
    ELSE el.placeholder

(* el.textContent?.trim() || el.value || el.placeholder || '' *)
Label(el) ==
    IF Trim(el.textContent) # << >> THEN Trim(el.textContent)
    ELSE IF el.value # << >> THEN el.value
    ELSE IF el.placeholder # << >> THEN el.placeholder
    ELSE << >>

(* The callback of Array.from(interactive).map((el, index) => ...) *)
Entry(el, index) ==
    [index |-> index, tag |-> ToLowerCase(el.tagName), text |-> Label(el),
     type |-> el.type, role |-> el.role, id |-> el.id,
     className |-> el.className]

(* this.page.evaluate(...): one entry per matching element *)
Evaluate(nodes) ==
    LET interactive == QuerySelectorAll(nodes) IN
    [i \in 1..Len(interactive) |-> Entry(interactive[i], i - 1)]

(* el => el.text || el.id || el.className *)
Kept(el) == el.text # << >> \/ el.id # "" \/ el.className # ""

(* A snapshot that numbers the elements it keeps *)
SnapshotOf_IndexAfter(nodes) ==
    LET kept == SelectSeq(Evaluate(nodes), Kept) IN
    [url |-> "${url}", title |-> "${title}",
     elements |-> [i \in 1..Len(kept) |-> [kept[i] EXCEPT !.index = i - 1]]]

(* What snapshot() returns for a document *)
SnapshotOf(nodes) ==
    [url |-> "${url}", title |-> "${title}",
     elements |-> SelectSeq(Evaluate(nodes), Kept)]

(* What a method of the session returns once op has succeeded: for the     *)
(* callback of snapshot on a known document, the snapshot                  *)
Returns(s, doc, op) ==
    IF "fn" \in DOMAIN op /\ "nodes" \in DOMAIN doc
    THEN [to |-> s, msg |-> NoErr, ret |-> SnapshotOf(doc.nodes)]
    ELSE NoAnswer

(***************************************************************************)
(* The state after construction: new SimpleBrowser(config), no call yet.   *)
(***************************************************************************)
NoSession ==
    /\ browser = 0
    /\ context = 0
    /\ page = 0
    /\ engines = << >>
    /\ closeCalls = << >>
    /\ launchCalls = 0
    /\ tasks = [s \in Slots |-> Idle]
    /\ last = Idle
    /\ exited = "running"
    /\ nCalls = 0
    /\ dispatch = NoDispatch
    /\ hist = {}
    /\ pages = << >>
    /\ answer = NoAnswer

(* The server is up: started without flags, the catalog registered *)
Init ==
    /\ NoSession
    /\ tools = createTools
    /\ boot = Serving

(* A call starts in slot s; flags records its kind *)
Begin(s, flags) ==
    /\ exited = "running"
    /\ Free(s)
    /\ \A o \in 1..(s - 1) : Pending(o)
    /\ nCalls < MaxCalls
    /\ nCalls' = nCalls + 1
    /\ hist' = hist \cup flags \cup
                 (IF \E o \in Slots \ {s} : Pending(o) THEN {"overlap"} ELSE {})

(***************************************************************************)
(* CallToolRequestSchema handler, up to the handler's first real await.    *)
(***************************************************************************)
CallTool(s, name, given) ==
    LET args == Received(given)
        t    == [Idle EXCEPT !.name = name, !.nf = FieldsOf(args),
                             !.tmpl = TemplateOf(args),
                             !.fields = IF "fields" \in DOMAIN args
                                        THEN args.fields ELSE << >>]
    IN
    /\ Begin(s, IF name = "close" THEN {"close"} ELSE {})
    /\ pages' = pages
    /\ answer' = NoAnswer
    /\ dispatch' = [name |-> name, given |-> given,
                    invoked |-> IF FindTool(name) = 0 THEN << >> ELSE <<args>>]
    /\ IF FindTool(name) = 0
       THEN /\ Step(s, Done(t, Thrown(UnknownToolError(name)), NoErr))
            /\ UNCHANGED <<browser, context, page, engines, closeCalls, launchCalls, exited>>
       ELSE IF name \in TemplateTools
       THEN /\ Step(s, [t EXCEPT !.pc = IF name = "show_available_templates"
                                          THEN "help" ELSE "sys"])
            /\ UNCHANGED <<browser, context, page, engines, closeCalls, launchCalls, exited>>
       ELSE Settle(s, t, Program(name, args), browser, context, page, engines)

(* browser.launch() called directly, as the test suite does *)
ApiLaunch(s) ==
    LET t == [Idle EXCEPT !.name = "launch()"] IN
    /\ Begin(s, {"launch"})
    /\ dispatch' = NoDispatch
    /\ pages' = pages
    /\ answer' = NoAnswer
    /\ Settle(s, t, Program("launch()", EmptyObject), browser, context, page, engines)

(* The SIGINT and SIGTERM handlers: log, await browser.close(), exit(0) *)
Signal(s, sig) ==
    LET t == [Idle EXCEPT !.name = sig] IN
    /\ Begin(s, {"close"})
    /\ dispatch' = NoDispatch
    /\ pages' = pages
    /\ answer' = NoAnswer
    /\ Settle(s, t, Program(sig, EmptyObject), browser, context, page, engines)

(* A listing that drops the session's handles *)
ListTools_Resetting ==
    /\ exited = "running"
    /\ last' = Done([Idle EXCEPT !.name = "tools/list"],
                    [kind |-> "list", tools |-> ListResult(tools)], NoErr)
    /\ browser' = 0
    /\ context' = 0
    /\ page' = 0
    /\ UNCHANGED <<engines, closeCalls, launchCalls,
                   tasks, exited, nCalls, tools, boot, hist, pages>>
    /\ dispatch' = NoDispatch
    /\ answer' = NoAnswer

(* ListToolsRequestSchema handler: it awaits nothing *)
ListTools ==
    /\ exited = "running"
    /\ last' = Done([Idle EXCEPT !.name = "tools/list"],
                    [kind |-> "list", tools |-> ListResult(tools)], NoErr)
    /\ UNCHANGED <<browser, context, page, engines, closeCalls, launchCalls,
                   tasks, exited, nCalls, tools, boot, hist, pages>>
    /\ dispatch' = NoDispatch
    /\ answer' = NoAnswer

(***************************************************************************)
(* SimpleBrowser.launch, one await at a time.  Every failure is rethrown   *)
(* as "Failed to launch browser: ...".                                     *)
(***************************************************************************)
EngineAnswers(e) ==
    IF engines[e] = "live" THEN EngineErrors ELSE {TargetClosed}

(* The catch block of launch: the error is thrown on under a new message *)
OpenFails(s, t, m) ==
    /\ Raise(s, t, LaunchError(m), engines)
    /\ nCalls' = nCalls
    /\ dispatch' = NoDispatch
    /\ hist' = hist \cup {"openFailed"}
    /\ pages' = pages

LaunchResolve(s) ==
    LET t == tasks[s] IN
    /\ exited = "running"
    /\ t.pc = "launch"
    /\ \/ LET id == Len(engines) + 1 IN
          /\ UNCHANGED <<nCalls, hist>> /\ dispatch' = NoDispatch
          /\ engines' = Append(engines, "live")
          /\ closeCalls' = Append(closeCalls, 0)
          /\ pages' = Append(pages, NoPage)
          /\ answer' = NoAnswer
          /\ browser' = id
          /\ Step(s, [t EXCEPT !.pc = "newContext", !.h = id])
          /\ UNCHANGED <<context, page, launchCalls, exited>>
       \/ \E m \in EngineErrors : OpenFails(s, t, m)

NewContextResolve(s) ==
    LET t == tasks[s] IN
    /\ exited = "running"
    /\ t.pc = "newContext"
    /\ \/ /\ engines[t.h] = "live"
          /\ UNCHANGED <<nCalls, hist>> /\ dispatch' = NoDispatch
          /\ context' = t.h
          /\ pages' = pages
          /\ answer' = NoAnswer
          /\ Step(s, [t EXCEPT !.pc = "newPage"])
          /\ UNCHANGED <<browser, page, engines, closeCalls, launchCalls, exited>>
       \/ \E m \in EngineAnswers(t.h) : OpenFails(s, t, m)

NewPageResolve(s) ==
    LET t == tasks[s] IN
    /\ exited = "running"
    /\ t.pc = "newPage"
    /\ \/ /\ engines[t.h] = "live"
          /\ UNCHANGED <<nCalls, hist>> /\ dispatch' = NoDispatch
          /\ pages' = [pages EXCEPT ![t.h] =
                          [timeouts |-> Append(@.timeouts, boot.config.timeout),
                           doc      |-> Unknown]]
          /\ answer' = NoAnswer
          /\ Settle(s, t, t.prog, browser, context, t.h, engines)
       \/ \E m \in EngineAnswers(t.h) : OpenFails(s, t, m)

(* The page operation a primitive awaits *)
PageResolve(s) ==
    LET t == tasks[s] IN
    /\ exited = "running"
    /\ t.pc = "page"
    /\ UNCHANGED <<nCalls, hist>> /\ dispatch' = NoDispatch
    /\ \/ /\ engines[t.h] = "live"
          /\ CanAct(pages[t.h].doc, t.op)
          /\ pages' = [pages EXCEPT ![t.h].doc = Effect(@, t.op)]
          /\ answer' = Returns(s, pages[t.h].doc, t.op)
          /\ Settle(s, t, t.prog, browser, context, page, engines)
       \/ /\ pages' = pages
          /\ \E m \in EngineAnswers(t.h) : Raise(s, t, m, engines)

(* SimpleBrowser.close after its await of this.browser.close() *)
CloseResolve(s) ==
    LET t == tasks[s] IN
    /\ exited = "running"
    /\ t.pc = "closing"
    /\ UNCHANGED <<nCalls, hist, pages>> /\ dispatch' = NoDispatch
    /\ \/ /\ answer' = NoAnswer
          /\ Settle(s, t, t.prog, 0, 0, 0, [engines EXCEPT ![t.h] = "closed"])
       \/ /\ engines[t.h] = "live"
          /\ \E m \in EngineErrors : Raise(s, t, m, engines)

(***************************************************************************)
(* The scaffolding handlers, one execSync or one parse at a time.  A call  *)
(* is at "sys" in getTemplatesFromSystem, at "parse" in                    *)
(* parseTemplatesFromHelp with the generator's output in tpl.              *)
(***************************************************************************)
ExecErrors == { <<"Command failed: zypin create-project">> }

(* The handler once the template list is known *)
WithTemplates(t, tpl) ==
    IF t.name = "show_available_templates"
    THEN HandlerReturns(t, ShowResult(tpl))
    ELSE IF ~TemplateExists(tpl, t.tmpl)
    THEN HandlerReturns(t, TemplateMissing(tpl, t.tmpl))
    ELSE [t EXCEPT !.pc = "create", !.tpl = tpl]

(* show_available_templates: zypin create-project --help *)
ExecHelp(s) ==
    LET t == tasks[s] IN
    /\ exited = "running"
    /\ t.pc = "help"
    /\ UNCHANGED <<browser, context, page, engines, closeCalls, launchCalls,
                   exited, nCalls, hist, pages>>
    /\ dispatch' = NoDispatch
    /\ answer' = NoAnswer
    /\ \/ \E m \in ExecErrors :
             Step(s, HandlerReturns(t, ShowFailure(m)))
       \/ \E o \in HelpOutputs :
             Step(s, [t EXCEPT !.pc = "parse", !.tpl = o])

(* getTemplatesFromSystem: the help text again, "No help available" when   *)
(* the generator is missing; the fallback list when execSync throws        *)
ExecSys(s) ==
    LET t == tasks[s] IN
    /\ exited = "running"
    /\ t.pc = "sys"
    /\ UNCHANGED <<browser, context, page, engines, closeCalls, launchCalls,
                   exited, nCalls, hist, pages>>
    /\ dispatch' = NoDispatch
    /\ answer' = NoAnswer
    /\ \/ Step(s, WithTemplates(t, Fallback))
       \/ \E o \in HelpOutputs :
             Step(s, [t EXCEPT !.pc = "parse", !.tpl = o])

(* parseTemplatesFromHelp: the templates of the output, and                *)
(* getTemplatesFromSystem once more when it names none                     *)
ParseHelp(s) ==
    LET t == tasks[s] IN
    /\ exited = "running"
    /\ t.pc = "parse"
    /\ UNCHANGED <<browser, context, page, engines, closeCalls, launchCalls,
                   exited, nCalls, hist, pages>>
    /\ dispatch' = NoDispatch
    /\ answer' = NoAnswer
    /\ Step(s, IF ParseTemplates(t.tpl) # << >>
               THEN WithTemplates([t EXCEPT !.tpl = << >>], ParseTemplates(t.tpl))
               ELSE [t EXCEPT !.pc = "sys", !.tpl = << >>])

(* create_test_project: zypin create-project <name> --template <t> --force *)
ExecCreate(s) ==
    LET t == tasks[s] IN
    /\ exited = "running"
    /\ t.pc = "create"
    /\ UNCHANGED <<browser, context, page, engines, closeCalls, launchCalls,
                   exited, nCalls, hist, pages>>
    /\ dispatch' = NoDispatch
    /\ answer' = NoAnswer
    /\ \/ \E m \in ExecErrors :
             Step(s, HandlerReturns(t, CreateFailure(m)))
       \/ Step(s, HandlerReturns(t, CreateResult(t.tmpl)))

(***************************************************************************)
(* The names the host asks for: one tool of each shape of handler (a       *)
(* primitive without and with data, getUrl, snapshot, fillForm, close, the *)
(* scaffolding tools) and the unknown names, each with the arguments of    *)
(* GivenArgs.                                                              *)
(***************************************************************************)
Registered == {ToolNames[i] : i \in 1..Len(ToolNames)}

Asked ==
    {"navigate", "get_text", "get_url", "snapshot", "close", "fill_form",
     "show_available_templates", "create_test_project"} \cup UnknownNames

Next ==
    \/ ListTools
    \/ \E s \in Slots :
       \/ \E name \in Asked :
             \E given \in GivenArgs(name) : CallTool(s, name, given)
       \/ ApiLaunch(s)
       \/ \E sig \in Signals : Signal(s, sig)
       \/ LaunchResolve(s)
       \/ NewContextResolve(s)
       \/ NewPageResolve(s)
       \/ PageResolve(s)
       \/ CloseResolve(s)
       \/ ExecHelp(s)
       \/ ExecSys(s)
       \/ ParseHelp(s)
       \/ ExecCreate(s)

Spec == Init /\ [][Next]_vars

(***************************************************************************)
(* The scaffolding tools alone.  Node runs every callback that is ready:   *)
(* each step of a handler is taken once it can be.  What the generator     *)
(* answers is its own affair.                                              *)
(***************************************************************************)
NextScaffold ==
    \E s \in Slots :
       \/ \E name \in TemplateTools :
             \E given \in GivenArgs(name) : CallTool(s, name, given)
       \/ ExecHelp(s)
       \/ ExecSys(s)
       \/ ParseHelp(s)
       \/ ExecCreate(s)

SpecScaffold ==
    /\ Init
    /\ [][NextScaffold]_vars
    /\ \A s \in Slots :
          /\ WF_vars(ExecHelp(s))
          /\ WF_vars(ExecSys(s))
          /\ WF_vars(ParseHelp(s))
          /\ WF_vars(ExecCreate(s))

(***************************************************************************)
(* The sixteen browser tools, each with the arguments of GivenArgs, called *)
(* one at a time as the host is assumed to call them.                      *)
(***************************************************************************)
BrowserTools == Registered \ TemplateTools

NextEachTool ==
    \/ \E name \in BrowserTools :
          \E given \in GivenArgs(name) : CallTool(1, name, given)
    \/ LaunchResolve(1)
    \/ NewContextResolve(1)
    \/ NewPageResolve(1)
    \/ PageResolve(1)
    \/ CloseResolve(1)

(* The server is up, started without flags or with --timeout 800 *)
InitEachTool ==
    /\ NoSession
    /\ tools = createTools
    /\ boot \in {Serving, ServingWithTimeout(<<"8", "0", "0">>)}

SpecEachTool == InitEachTool /\ [][NextEachTool]_vars

(***************************************************************************)
(* A form and its fields: navigate to the form, fill_form with mappings in *)
(* either key order, with an array-index key, with two selectors of one    *)
(* element; the calls made one at a time.                                  *)
(***************************************************************************)
Mappings ==
    { << <<"#a", "x">>, <<"#b", "y">> >>,
      << <<"#b", "y">>, <<"#a", "x">> >>,
      << <<"#b", "y">>, <<"1", "z">> >>,
      << <<"#a", "x">>, <<"[name=a]", "y">> >> }

FormArgs(name) ==
    IF name = "navigate" THEN {Arguments([url |-> FormUrl])}
    ELSE {Arguments([fields |-> f]) : f \in Mappings}

NextPage ==
    \/ \E name \in {"navigate", "fill_form"} :
          \E given \in FormArgs(name) : CallTool(1, name, given)
    \/ LaunchResolve(1)
    \/ NewContextResolve(1)
    \/ NewPageResolve(1)
    \/ PageResolve(1)

SpecPage == Init /\ [][NextPage]_vars

(***************************************************************************)
(* Snapshots.  The session is open on a page that holds any of the         *)
(* documents; snapshot is called on it, one call at a time.                *)
(***************************************************************************)
InitSnapshot ==
    /\ browser = 1
    /\ context = 1
    /\ page = 1
    /\ engines = << "live" >>
    /\ closeCalls = << 0 >>
    /\ launchCalls = 1
    /\ tasks = [s \in Slots |-> Idle]
    /\ last = Idle
    /\ exited = "running"
    /\ nCalls = 0
    /\ dispatch = NoDispatch
    /\ hist = {}
    /\ answer = NoAnswer
    /\ tools = createTools
    /\ boot = Serving
    /\ pages \in { << [timeouts |-> << Serving.config.timeout >>,
                       doc |-> [known |-> TRUE, nodes |-> d]] >> :
                    d \in Documents }

NextSnapshot ==
    \/ \E given \in GivenArgs("snapshot") : CallTool(1, "snapshot", given)
    \/ PageResolve(1)

SpecSnapshot == InitSnapshot /\ [][NextSnapshot]_vars

(***************************************************************************)
(* The start of the process, from the flags to the first launch.           *)
(***************************************************************************)
InitStartup ==
    /\ NoSession
    /\ tools = << >>
    /\ boot \in {Booting("index.js", o, NoFile) : o \in FlagOptions}
           \cup {Booting("part_000", o, NoFile) : o \in FlagOptions}
           \cup {Booting("part_000", [DefaultOptions EXCEPT !.config = TRUE], f) :
                    f \in Files}

SessionUntouched ==
    UNCHANGED <<browser, context, page, engines, closeCalls, launchCalls,
                tasks, last, exited, nCalls, dispatch, hist, pages, answer>>

(* main: the config is built from the flags *)
Main ==
    /\ boot.phase = "start"
    /\ boot.version = "index.js"
    /\ boot' = [boot EXCEPT !.phase = "configured",
                            !.config = ConfigFromOptions(boot.options)]
    /\ UNCHANGED tools
    /\ SessionUntouched

(* The earlier main: the config file when --config is given, else the      *)
(* defaults overridden by the flags.  parseConfig logs what validateConfig *)
(* throws and exits with status 1.                                         *)
MainEarlier ==
    /\ boot.phase = "start"
    /\ boot.version = "part_000"
    /\ IF boot.options.config
       THEN LET r == parseConfig(boot.file) IN
            boot' = IF r.ok
                    THEN [boot EXCEPT !.phase = "configured", !.config = r.config]
                    ELSE [boot EXCEPT !.phase = "exit1",
                                      !.error = <<"Invalid configuration:">> \o r.error]
       ELSE boot' = [boot EXCEPT !.phase = "configured",
                                 !.config = ConfigFromOverrides(boot.options)]
    /\ UNCHANGED tools
    /\ SessionUntouched

(* new SimpleBrowser(config): the session keeps the config it is given *)
Construct ==
    /\ boot.phase = "configured"
    /\ boot' = [boot EXCEPT !.phase = "constructed"]
    /\ UNCHANGED tools
    /\ SessionUntouched

(* createTools(browser) *)
Register ==
    /\ boot.phase = "constructed"
    /\ boot' = [boot EXCEPT !.phase = "serving"]
    /\ tools' = createTools
    /\ SessionUntouched

(* launch: what it reads of the config and hands to the engine *)
LaunchReads ==
    /\ boot.phase = "serving"
    /\ boot' = [boot EXCEPT !.phase = "launched",
                            !.engine = [type    |-> getBrowserType(boot.config),
                                        options |-> boot.config]]
    /\ UNCHANGED tools
    /\ SessionUntouched

NextStartup ==
    \/ Main
    \/ MainEarlier
    \/ Construct
    \/ Register
    \/ LaunchReads

SpecStartup == InitStartup /\ [][NextStartup]_vars


(***************************************************************************)
(* Vocabulary of the properties                                            *)
(***************************************************************************)
IsErrorSet(resp) == "isError" \in DOMAIN resp /\ resp.isError

Has(envelope, key) == key \in DOMAIN envelope

(* A call of a registered tool ended in the last step *)
ToolEnded == last.pc = "done" /\ FindTool(last.name) # 0

(* A callTool for a name the catalog does not hold ended in the last step *)
UnknownEnded == last.pc = "done" /\ last.name \in UnknownNames

HandlerThrew == last.err # NoErr

(* No call was ever started while another was in flight *)
Serial == "overlap" \notin hist

(* Only tool calls so far, one at a time, none of them close *)
SerialToolCallsNoClose == hist \cap {"overlap", "close", "launch"} = {}

(* No open sequence has failed so far *)
NoFailedOpen == "openFailed" \notin hist

Live == {e \in DOMAIN engines : engines[e] = "live"}

Unopened == browser = 0 /\ context = 0 /\ page = 0

(***************************************************************************)
(* C1: when the handler of a registered tool throws an error with message  *)
(* m, callTool returns a response whose envelope is                        *)
(* {success: false, error: m} with isError set; a call of a registered     *)
(* tool never ends by throwing to the caller.                              *)
(***************************************************************************)
C1_HandlerFailureBecomesEnvelope ==
    ToolEnded =>
       /\ last.out.kind = "response"
       /\ HandlerThrew =>
             /\ last.out.resp.content = [success |-> FALSE, error |-> last.err]
             /\ IsErrorSet(last.out.resp)

C1_Witness ==
    /\ ToolEnded
    /\ last.err = <<"boom">>
    /\ last.out.kind = "response"

(***************************************************************************)
(* C2: callTool with a name that matches no registered tool yields a       *)
(* failure envelope {success: false, error: text containing the name}.     *)
(***************************************************************************)
C2_UnknownToolIsEnvelope ==
    UnknownEnded =>
       /\ last.out.kind = "response"
       /\ last.out.resp.content.success = FALSE
       /\ Contains(last.out.resp.content.error, last.name)


(***************************************************************************)
(* C3, as stated: after any sequence of tool calls made one at a time,     *)
(* none of them close, the engine's launch primitive has been invoked at   *)
(* most once.                                                              *)
(***************************************************************************)
C3_LaunchCounterAtMostOne ==
    SerialToolCallsNoClose => launchCalls <= 1

(* The call started in this step is a browser primitive (not close) *)
StartsPrimitive ==
    /\ nCalls' = nCalls + 1
    /\ \E s \in Slots :
          /\ tasks[s].pc = "idle"
          /\ tasks'[s].pc \in {"launch", "page"}

(***************************************************************************)
(* C3, amended: in a sequence of tool calls made one at a time, none of    *)
(* them close, a primitive called while there is no browser invokes the    *)
(* launch primitive exactly once, a call made while there is a browser     *)
(* invokes it not at all, and at most one engine is ever launched (the     *)
(* launch primitive is invoked again only while no engine has started).    *)
(***************************************************************************)
C3_OneEngineNoRelaunch ==
    [][ SerialToolCallsNoClose' =>
          /\ Len(engines') <= 1
          /\ browser # 0 => launchCalls' = launchCalls
          /\ (StartsPrimitive /\ browser = 0) => launchCalls' = launchCalls + 1
          /\ launchCalls' > launchCalls => engines = << >> ]_vars

C3_Witness ==
    /\ SerialToolCallsNoClose
    /\ nCalls >= 2
    /\ launchCalls = 1
    /\ Len(engines) = 1
    /\ tasks[1].pc = "page"

(***************************************************************************)
(* C4: after any sequence of launch(), primitives and close(), made one at *)
(* a time and none failing to open, at most one engine is live, no engine has been closed more than *)
(* once, and no live engine has been replaced in the session (abandoned).  *)
(***************************************************************************)
C4_AtMostOneLiveEngine ==
    (Serial /\ NoFailedOpen) =>
       /\ Cardinality(Live) <= 1
       /\ \A e \in Live : ~SomePending => browser = e
       /\ \A e \in DOMAIN engines : engines[e] = "closed" => closeCalls[e] <= 1

(***************************************************************************)
(* C5: once close() has completed on an opened session, no later call      *)
(* launches the engine again (calls made one at a time, no failed open).   *)
(***************************************************************************)
C5_ClosedIsTerminal ==
    [][ (Serial' /\ NoFailedOpen' /\ \E e \in DOMAIN engines : engines[e] = "closed")
           => launchCalls' = launchCalls ]_vars


(* A close tool call ended in the last step *)
CloseEnded == last.pc = "done" /\ last.name = "close"

(* This step starts a close tool call *)
StartsClose ==
    /\ nCalls' = nCalls + 1
    /\ \/ CloseEnded'
       \/ \E s \in Slots : tasks[s].pc = "idle" /\ tasks'[s].name = "close"

(***************************************************************************)
(* C6, as stated: every close() of a sequence of calls made one at a time,  *)
(* none failing to open, ends without error and leaves the session closed, *)
(* every handle null.                                                      *)
(***************************************************************************)
C6_CloseNeverFails ==
    (Serial /\ NoFailedOpen /\ CloseEnded) => (~HandlerThrew /\ Unopened)

(***************************************************************************)
(* C6, amended: close() ends with an error only when the engine's own      *)
(* close rejects; every close() that returns reports success, and when the *)
(* calls are made one at a time it leaves the session closed, every handle *)
(* null; close() on a session without a browser (unopened or closed)       *)
(* returns at once, calls nothing of the engine, launches nothing and      *)
(* changes no handle, so a second close() after a first is a no-op.        *)
(***************************************************************************)
C6_CloseIdempotent ==
    [][ /\ CloseEnded' =>
             /\ ~HandlerThrew' =>
                   /\ Serial' => Unopened'
                   /\ last'.out.resp.content.success
                   /\ ~IsErrorSet(last'.out.resp)
             /\ HandlerThrew' =>
                   /\ last'.err \in EngineErrors
                   /\ \E s \in Slots :
                         /\ tasks[s].pc = "closing"
                         /\ tasks'[s].pc = "idle"
                         /\ engines'[tasks[s].h] = "live"
        /\ (StartsClose /\ browser = 0) =>
             /\ CloseEnded'
             /\ ~HandlerThrew'
             /\ closeCalls' = closeCalls
             /\ launchCalls' = launchCalls
             /\ engines' = engines
             /\ <<browser', context', page'>> = <<browser, context, page>> ]_vars

C6_Witness ==
    /\ Serial
    /\ CloseEnded
    /\ ~HandlerThrew
    /\ nCalls = 3
    /\ engines = <<"closed">>
    /\ closeCalls = <<1>>
    /\ Unopened

(***************************************************************************)
(* C7: when a signal handler's close() starts while another handler still  *)
(* awaits the engine's close, the engine's close is not invoked again: no  *)
(* engine has two close invocations of signal handlers pending.            *)
(***************************************************************************)
C7_ReleaseInvokedOnce ==
    \A e \in DOMAIN engines : NoFailedOpen =>
       Cardinality({s \in Slots : /\ tasks[s].name \in Signals
                                  /\ tasks[s].pc = "closing"
                                  /\ tasks[s].h = e}) <= 1

IsLaunchError(m) == m # << >> /\ m[1] = "Failed to launch browser: "

(***************************************************************************)
(* C8: when the open sequence fails at any step (tool calls one at a time, *)
(* no direct launch()), the session is left unopened, every handle null,   *)
(* and no engine is live.                                                  *)
(***************************************************************************)
C8_FailedOpenLeavesUnopened ==
    (Serial /\ "launch" \notin hist /\ ToolEnded /\ IsLaunchError(last.err))
       => (Unopened /\ Live = {})

(***************************************************************************)
(* C9: a callTool response carries isError exactly when the handler threw; *)
(* an envelope with success: false that the handler returned is passed on  *)
(* without isError.                                                        *)
(***************************************************************************)
C9_IsErrorIffHandlerThrew ==
    (last.pc = "done" /\ last.out.kind = "response") =>
       /\ IsErrorSet(last.out.resp) <=> HandlerThrew
       /\ HandlerThrew => ~last.out.resp.content.success

C9_Witness ==
    /\ ToolEnded
    /\ last.out.kind = "response"
    /\ ~HandlerThrew
    /\ ~last.out.resp.content.success
    /\ ~IsErrorSet(last.out.resp)

(***************************************************************************)
(* C10: in every envelope data and error are never both present, data is   *)
(* present only when success is true, error only when success is false.    *)
(***************************************************************************)
C10_DataOnlyOnSuccess ==
    (last.pc = "done" /\ last.out.kind = "response") =>
       LET e == last.out.resp.content IN
       /\ ~(Has(e, "data") /\ Has(e, "error"))
       /\ Has(e, "data") => e.success
       /\ Has(e, "error") => ~e.success

(* The process has ended, by process.exit(0) or by the uncaught rejection  *)
(* of a signal handler                                                     *)
Exited == exited # "running"

(* Calls whose browserType.launch() the engine has not answered: the       *)
(* engine is starting and no handle of the session refers to it yet        *)
Launching == {s \in Slots : tasks[s].pc = "launch"}

ShutdownsInFlight == {s \in Slots : tasks[s].name \in Signals /\ Pending(s)}

(***************************************************************************)
(* C11: when a signal handler has run close() and exited the process, no   *)
(* engine is left running and none is left starting, whatever the session  *)
(* was doing when the signal arrived (no open sequence having failed, no   *)
(* direct launch(), one signal).                                           *)
(***************************************************************************)
C11_NoEngineLeftAtExit ==
    (exited = "exit0" /\ NoFailedOpen /\ "launch" \notin hist)
       => (Live = {} /\ Launching = {})

(***************************************************************************)
(* C12: at most one shutdown sequence is ever in flight: a signal that     *)
(* arrives while a first handler awaits close() starts no second one.      *)
(***************************************************************************)
C12_OneShutdownSequence == Cardinality(ShutdownsInFlight) <= 1

(***************************************************************************)
(* C13: a signal handler never ends with an uncaught rejection; when the   *)
(* engine's close rejects inside it the process still exits by exit(0).    *)
(***************************************************************************)
C13_ShutdownFailureSwallowed == exited # "uncaught"

(* A tools/list request ended in the last step *)
ListEnded == last.pc = "done" /\ last.name = "tools/list"

(***************************************************************************)
(* C14: every tools/list answer has one entry per descriptor of the        *)
(* catalog as it was created, in registration order, each with exactly     *)
(* name, description and inputSchema and no handler; so the answer is the  *)
(* same at every call, whatever calls, closes and failures came before.    *)
(***************************************************************************)
C14_ListingStable ==
    ListEnded =>
       LET l == last.out.tools IN
       /\ Len(l) = Len(createTools)
       /\ \A i \in 1..Len(l) :
             /\ DOMAIN l[i] = {"name", "description", "inputSchema"}
             /\ l[i].name = ToolNames[i]
             /\ l[i].description = createTools[i].description
             /\ l[i].inputSchema = createTools[i].inputSchema

C14_Witness ==
    /\ ListEnded
    /\ nCalls = MaxCalls
    /\ {"close", "openFailed"} \subseteq hist
    /\ Len(last.out.tools) = 18

(***************************************************************************)
(* C16: the names of the catalog are pairwise different, every name in a   *)
(* descriptor's inputSchema.required is a key of its                       *)
(* inputSchema.properties, and the catalog is at every moment the one      *)
(* createTools returned.                                                   *)
(***************************************************************************)
C16_RegistryWellFormed ==
    /\ tools = createTools
    /\ \A i, j \in 1..Len(tools) : tools[i].name = tools[j].name => i = j
    /\ \A i \in 1..Len(tools) :
          LET schema == tools[i].inputSchema IN
          \A k \in 1..Len(schema.required) :
             schema.required[k] \in schema.properties

C16_Witness ==
    /\ tools = createTools
    /\ nCalls = MaxCalls
    /\ ToolEnded
    /\ HandlerThrew
    /\ engines # << >>

(* The last step was a tools/call request for a registered tool *)
Dispatched == dispatch.name # "" /\ FindTool(dispatch.name) # 0

(***************************************************************************)
(* C15: a tools/call request for a registered tool invokes the handler     *)
(* exactly once, with the caller's argument object as it was sent or with  *)
(* an empty object when none was sent, whatever required field is missing; *)
(* the call then either awaits the handler or has ended with a response.   *)
(***************************************************************************)
C15_HandlerInvokedOnceWithArgs ==
    Dispatched =>
       /\ Len(dispatch.invoked) = 1
       /\ dispatch.given.supplied => dispatch.invoked[1] = dispatch.given.obj
       /\ ~dispatch.given.supplied => dispatch.invoked[1] = EmptyObject
       /\ \/ \E s \in Slots : Pending(s) /\ tasks[s].name = dispatch.name
          \/ ToolEnded /\ last.name = dispatch.name
                       /\ last.out.kind = "response"

C15_Witness ==
    /\ Dispatched
    /\ dispatch.name = "fill_form"
    /\ ~dispatch.given.supplied
    /\ dispatch.invoked = <<EmptyObject>>
    /\ browser # 0
    /\ ToolEnded
    /\ last.err = EntriesError

(* The earlier main has loaded a config file that could be read *)
FileLoaded ==
    /\ boot.version = "part_000"
    /\ boot.options.config
    /\ boot.file.readable
    /\ boot.phase # "start"

Present(x) == x.t # "undefined"

(* A value the configuration schema does not allow *)
OutsideSchema(d) ==
    \/ Present(d.browser) /\ ~(d.browser.t = "string" /\ d.browser.s \in ValidBrowsers)
    \/ Present(d.headless) /\ d.headless.t # "boolean"
    \/ Present(WidthOf(d.viewport)) /\ NotPositiveNumber(WidthOf(d.viewport))
    \/ Present(HeightOf(d.viewport)) /\ NotPositiveNumber(HeightOf(d.viewport))
    \/ Present(d.timeout) /\ NotPositiveNumber(d.timeout)

OrDefault(x, default) == IF Present(x) THEN x ELSE default

(* The file's values, each absent one replaced by its default *)
WithDefaults(d) ==
    [browser  |-> OrDefault(d.browser, Str("chromium")),
     headless |-> OrDefault(d.headless, Bool(TRUE)),
     viewport |-> [width  |-> OrDefault(WidthOf(d.viewport), Num(1280)),
                   height |-> OrDefault(HeightOf(d.viewport), Num(720))],
     timeout  |-> OrDefault(d.timeout, Num(30000))]

(***************************************************************************)
(* C17: a config file with a value outside the schema (an unknown browser, *)
(* a headless that is no boolean, a width, height or timeout that is no    *)
(* positive number) ends the process with an error message and status 1    *)
(* before any tool is registered; any other file yields its values with    *)
(* chromium, headless, 1280, 720 and 30000 for the fields it leaves out.   *)
(***************************************************************************)
C17_ConfigFailsFastOrDefaults ==
    FileLoaded =>
       LET d == boot.file.data IN
       /\ OutsideSchema(d) =>
             boot.phase = "exit1" /\ boot.error # << >> /\ tools = << >>
       /\ ~OutsideSchema(d) =>
             boot.phase # "exit1" /\ boot.config = WithDefaults(d)

(* The session has been constructed with the config main built from flags *)
ConfigHanded ==
    /\ boot.version = "index.js"
    /\ boot.phase \in {"constructed", "serving", "launched"}

PositiveNumber(x) == x.t = "number" /\ ~x.nan /\ x.v > 0

(***************************************************************************)
(* C18: whatever the flags, the config the session is constructed with     *)
(* names one of the three engines and has a positive viewport width, a     *)
(* positive viewport height and a positive timeout.                        *)
(***************************************************************************)
C18_ConfigWithinDomain ==
    ConfigHanded =>
       /\ boot.config.browser.s \in ValidBrowsers
       /\ PositiveNumber(boot.config.viewport.width)
       /\ PositiveNumber(boot.config.viewport.height)
       /\ PositiveNumber(boot.config.timeout)

(***************************************************************************)
(* C19: every call of a scaffolding tool ends, whatever the generator      *)
(* answers: a call in flight is eventually over.                           *)
(***************************************************************************)
C19_ScaffoldingTerminates ==
    \A s \in Slots :
       (Pending(s) /\ tasks[s].name \in TemplateTools) ~> (Free(s) \/ Exited)

(* The names the test suite looks up in the catalog and invokes *)
TestedNames ==
    {"get_available_templates", "create_template", "how_to_write",
     "how_to_debug", "navigate", "go_back", "go_forward", "reload", "click",
     "type", "select", "fill_form", "snapshot", "screenshot", "get_text",
     "get_url", "get_title", "wait_for", "evaluate"}

(***************************************************************************)
(* C20: the catalog holds a tool for every name the test suite looks up.   *)
(***************************************************************************)
C20_CatalogHasTestedNames == \A name \in TestedNames : FindTool(name) # 0

(* A method of the session ended with a failure in this step, in the call  *)
(* of slot s                                                               *)
FailedIn(s) == answer.to = s /\ answer.msg # NoErr

(***************************************************************************)
(* C21: when the session method a browser tool's handler awaits fails, the *)
(* call ends in that step: nothing is invoked on the engine again, the     *)
(* handler throws that same failure and the response is the dispatcher's   *)
(* failure envelope of it, not an envelope the handler returned.           *)
(***************************************************************************)
C21_FailurePropagatesUnretried ==
    [][\A s \in Slots :
          (tasks[s].name \in BrowserTools /\ FailedIn(s)') =>
             /\ tasks'[s] = Idle
             /\ launchCalls' = launchCalls
             /\ closeCalls' = closeCalls
             /\ last'.name = tasks[s].name
             /\ last'.err = answer'.msg
             /\ last'.out = Responded(ErrorResponse(answer'.msg))
             /\ IsErrorSet(last'.out.resp)]_vars

C21_Witness ==
    /\ FailedIn(1)
    /\ last.name = "screenshot"
    /\ last.err = <<"Timeout 30000ms exceeded">>
    /\ last.out.kind = "response"

(* The call that ended in the last step read a property of a null page *)
ReadNullPage ==
    /\ last.pc = "done"
    /\ Len(last.err) = 3
    /\ last.err[1] = NullRead("")[1]

(***************************************************************************)
(* C22: a primitive reaches this.page only when the open sequence has      *)
(* completed: a call that awaits a page operation holds a page that was    *)
(* created, with browser, context and page present when it started, and no *)
(* call ends by reading a property of a page that is null.                 *)
(***************************************************************************)
C22_PageTouchedOnlyWhenOpen ==
    /\ ~ReadNullPage
    /\ \A s \in Slots :
          tasks[s].pc = "page" =>
             tasks[s].h # 0 /\ pages[tasks[s].h].timeouts # << >>

(* Some call is inside launch() or close() *)
OpeningOrClosing ==
    \E s \in Slots :
       tasks[s].pc \in {"launch", "newContext", "newPage", "closing"}

AllPresent == browser # 0 /\ context # 0 /\ page # 0

(***************************************************************************)
(* C30: whenever no launch() and no close() is in progress, browser,       *)
(* context and page are all null or all set.                               *)
(***************************************************************************)
C30_HandlesAllOrNone == ~OpeningOrClosing => (Unopened \/ AllPresent)

(* The session: its handles, the engines with what was invoked on them,    *)
(* the pages, and the calls that are inside one of its methods             *)
session == <<browser, context, page, engines, closeCalls, launchCalls,
             pages, tasks>>

(***************************************************************************)
(* C29: a step that answers tools/list, and a step that answers a          *)
(* tools/call for a name the catalog does not hold, leave the session as   *)
(* it was: no engine launched or closed, no handle changed, no page        *)
(* touched, no call of a session method started.                           *)
(***************************************************************************)
C29_ListAndUnknownLeaveSession ==
    [][(ListEnded' \/ dispatch'.name \in UnknownNames) => session' = session]_vars

C29_Witness ==
    /\ UnknownEnded
    /\ dispatch.name \in UnknownNames
    /\ browser # 0
    /\ \E s \in Slots : tasks[s].pc = "page"

(* The argument object args lacks a field the schema of name requires *)
MissingRequired(name, args) ==
    \E i \in 1..Len(Required(name)) : Required(name)[i] \notin DOMAIN args

(* This step dispatches name to its handler with a required field missing *)
DispatchedIncomplete ==
    /\ Dispatched
    /\ Len(dispatch.invoked) = 1
    /\ MissingRequired(dispatch.name, dispatch.invoked[1])

FailureEnvelope ==
    /\ ToolEnded
    /\ HandlerThrew
    /\ last.out = Responded(ErrorResponse(last.err))
    /\ IsErrorSet(last.out.resp)

GetsTemplates(s) ==
    /\ tasks[s].name = "create_test_project"
    /\ tasks'[s] # tasks[s]
    /\ \/ tasks[s].pc = "sys" /\ tasks'[s].pc # "parse"
       \/ tasks[s].pc = "parse" /\ ParseTemplates(tasks[s].tpl) # << >>

AvailableTemplates(s) ==
    IF tasks[s].pc = "sys" THEN Fallback ELSE ParseTemplates(tasks[s].tpl)

(* The generator is about to be run for the call of slot s *)
AboutToCreate(s) == tasks[s].pc = "create"

(***************************************************************************)
(* C27: once create_test_project has its list of available templates, a    *)
(* template that is not in the list ends the call at once with a soft      *)
(* failure whose message names the template, and a template in the list    *)
(* leads to the creation command; the creation command is reached from     *)
(* nowhere else.                                                           *)
(***************************************************************************)
C27_ValidatesBeforeCreating ==
    [][\A s \in Slots :
          /\ GetsTemplates(s) =>
                IF Contains(AvailableTemplates(s), tasks[s].tmpl)
                THEN AboutToCreate(s)' /\ last' = Idle
                ELSE /\ tasks'[s] = Idle
                     /\ last'.name = "create_test_project"
                     /\ last'.out.kind = "response"
                     /\ last'.out.resp.content.success = FALSE
                     /\ Contains(last'.out.resp.content.message, tasks[s].tmpl)
                     /\ ~IsErrorSet(last'.out.resp)
          /\ (AboutToCreate(s)' /\ ~AboutToCreate(s)) =>
                GetsTemplates(s) /\ Contains(AvailableTemplates(s), tasks[s].tmpl)]_vars

C27_Witness ==
    /\ last.name = "create_test_project"
    /\ last.out.kind = "response"
    /\ last.out.resp.content.success = FALSE
    /\ Contains(last.out.resp.content.message, "invalid/template")
    /\ \A s \in Slots : ~AboutToCreate(s)

(* The selector wait a wait_for call is to make: the operation it awaits   *)
(* or, while the session is being launched for it, the one it goes on with *)
SelectorWait(t) == IF t.pc = "page" THEN t.op ELSE t.prog[Len(t.prog)]

(* The handles that refer to a page, and the calls that await one *)
PagesInUse ==
    {e \in DOMAIN pages :
        page = e \/ \E s \in Slots : tasks[s].pc = "page" /\ tasks[s].h = e}

(***************************************************************************)
(* C26: every page the session uses has had its default timeout set once,  *)
(* to the configured timeout, and no page ever has it set a second time or *)
(* to another value; a wait_for call waits for its selector with the       *)
(* caller's timeout when the arguments hold one and with 5000 otherwise.   *)
(***************************************************************************)
C26_DefaultTimeoutSetOnce ==
    /\ \A e \in DOMAIN pages :
          /\ Len(pages[e].timeouts) <= 1
          /\ \A i \in DOMAIN pages[e].timeouts :
                pages[e].timeouts[i] = boot.config.timeout
          /\ e \in PagesInUse => Len(pages[e].timeouts) = 1
    /\ (Dispatched /\ dispatch.name = "wait_for") =>
          \A s \in Slots :
             (Pending(s) /\ tasks[s].name = "wait_for") =>
                SelectorWait(tasks[s]).timeout =
                   IF "timeout" \in DOMAIN Received(dispatch.given)
                   THEN Received(dispatch.given).timeout
                   ELSE 5000

C26_Witness ==
    /\ dispatch.name = "wait_for"
    /\ "timeout" \in DOMAIN Received(dispatch.given)
    /\ tasks[1].pc = "page"
    /\ tasks[1].op.timeout = 1000
    /\ pages[page].timeouts = << Num(800) >>

(* Slot s's fill_form call has the fill it awaits answered in this step;   *)
(* Position is the place of that fill among the fills of the call          *)
FillAnswered(s) ==
    /\ tasks[s].name = "fill_form"
    /\ tasks[s].pc = "page"
    /\ tasks'[s] # tasks[s]

Position(t) == Len(t.fields) - Len(t.prog)

Filled(s) == FillAnswered(s) /\ ~FailedIn(s)'

(* The document of the page the call of slot s works on, before and after *)
(* the step                                                                *)
DocOf(s) == pages[tasks[s].h].doc

DocAfter(s) == pages'[tasks[s].h].doc

(* Every field but the one sel matches is as it was *)
OthersKept(s, sel) ==
    \A el \in FormElements \ {ElementOf(sel)} :
       DocAfter(s).fields[el] = DocOf(s).fields[el]

(* The keys of the mapping are no array indices, and match one element each *)
PlainKeys(fields) ==
    \A i \in DOMAIN fields :
       /\ ArrayIndex(fields[i][1]) < 0
       /\ \A j \in DOMAIN fields :
             i # j => ElementOf(fields[i][1]) # ElementOf(fields[j][1])

(* The values the mapping writes are in the fields of the document *)
Holds(doc, fields) ==
    \A i \in DOMAIN fields : doc.fields[ElementOf(fields[i][1])] = fields[i][2]

(***************************************************************************)
(* C23, as stated: the k-th fill fillForm awaits is the k-th entry of the   *)
(* mapping in insertion order; a fill that succeeds changes that one field *)
(* only; and when the call succeeds every field named in the mapping holds *)
(* the value written for it.                                               *)
(***************************************************************************)
C23_FillsInInsertionOrder ==
    [][\A s \in Slots :
          /\ FillAnswered(s) =>
                /\ tasks[s].op.sel = tasks[s].fields[Position(tasks[s])][1]
                /\ tasks[s].op.val = tasks[s].fields[Position(tasks[s])][2]
          /\ (Filled(s) /\ DocOf(s).known) =>
                OthersKept(s, tasks[s].op.sel)
          /\ (Filled(s) /\ DocOf(s).known /\ tasks'[s] = Idle) =>
                Holds(DocAfter(s), tasks[s].fields)]_vars

(***************************************************************************)
(* C23, amended: the fills are awaited one at a time in the order of       *)
(* Object.entries, which is insertion order for a mapping whose keys are   *)
(* no array indices; a fill that succeeds changes the one field its        *)
(* selector matches; and when the call succeeds every field named in a     *)
(* mapping whose keys are no array indices and match different elements    *)
(* holds the value written for it, whatever the order of the keys.         *)
(***************************************************************************)
C23_FillsInEntriesOrder ==
    [][\A s \in Slots :
          /\ FillAnswered(s) =>
                LET t == tasks[s]
                    k == Position(t)
                    n == Len(IndexEntries(t.fields))
                IN  /\ IsFill(t.op)
                    /\ k > n => <<t.op.sel, t.op.val>> = NamedEntries(t.fields)[k - n]
                    /\ k <= n => ArrayIndex(t.op.sel) >= 0
                    /\ PlainKeys(t.fields) => <<t.op.sel, t.op.val>> = t.fields[k]
          /\ (Filled(s) /\ DocOf(s).known) =>
                /\ OthersKept(s, tasks[s].op.sel)
                /\ DocAfter(s).fields[ElementOf(tasks[s].op.sel)] = tasks[s].op.val
          /\ (Filled(s) /\ DocOf(s).known /\ tasks'[s] = Idle
                /\ PlainKeys(tasks[s].fields)) =>
                Holds(DocAfter(s), tasks[s].fields)]_vars

C23_Witness ==
    /\ last.name = "fill_form"
    /\ last.err = NoErr
    /\ last.out.kind = "response"
    /\ page # 0
    /\ pages[page].doc.known
    /\ pages[page].doc.fields["a"] = "x"
    /\ pages[page].doc.fields["b"] = "y"

(* snapshot() returned in the last step; Dom is the document it was taken  *)
(* of and Elements the list it returned                                    *)
SnapshotReturned == "ret" \in DOMAIN answer

Dom == pages[page].doc.nodes

Elements == answer.ret.elements

(* The positions in the document of the elements the selector matches, and *)
(* of those among them with a label, an id or a class                      *)
MatchedAt == {i \in DOMAIN Dom : Interactive(Dom[i])}

HasLabel(el) ==
    Trim(el.textContent) # << >> \/ el.value # << >> \/ el.placeholder # << >>

KeptAt ==
    {i \in MatchedAt :
        HasLabel(Dom[i]) \/ Dom[i].id # "" \/ Dom[i].className # ""}

(* How many positions of S come before i *)
RankIn(S, i) == Cardinality({j \in S : j < i})

(***************************************************************************)
(* C24: snapshot() returns url, title and elements; elements has one entry *)
(* for each matched element with a label, an id or a class, in document    *)
(* order, its index being the zero-based position of the element among all *)
(* matched elements; it is empty when nothing matches; and a matched       *)
(* button with id test-button and a visible text is in it with tag button  *)
(* and that id.                                                            *)
(***************************************************************************)
C24_SnapshotElements ==
    SnapshotReturned =>
       /\ DOMAIN answer.ret = {"url", "title", "elements"}
       /\ answer.msg = NoErr
       /\ Len(Elements) = Cardinality(KeptAt)
       /\ \A i \in KeptAt :
             LET el == Elements[RankIn(KeptAt, i) + 1] IN
             /\ el.index = RankIn(MatchedAt, i)
             /\ el.tag = ToLowerCase(Dom[i].tagName)
             /\ el.id = Dom[i].id
             /\ el.className = Dom[i].className
       /\ MatchedAt = {} => Elements = << >>
       /\ \A i \in DOMAIN Dom :
             (/\ Dom[i].tagName = "BUTTON"
              /\ Dom[i].id = "test-button"
              /\ Trim(Dom[i].textContent) # << >>) =>
                \E n \in DOMAIN Elements :
                   Elements[n].tag = "button" /\ Elements[n].id = "test-button"

C24_Witness ==
    /\ SnapshotReturned
    /\ Len(Dom) = 2
    /\ Len(Elements) = 1
    /\ Elements[1].index = 1
    /\ Elements[1].id = "test-button"
    /\ Elements[1].tag = "button"

(***************************************************************************)
(* C25: the text of every entry of a snapshot is the trimmed text content  *)
(* of its element when that is not empty, else the element's value when    *)
(* that is not empty, else its placeholder when that is not empty, else    *)
(* the empty string.                                                       *)
(***************************************************************************)
C25_LabelPrecedence ==
    SnapshotReturned =>
       \A n \in DOMAIN Elements :
          LET el   == QuerySelectorAll(Dom)[Elements[n].index + 1]
              text == Trim(el.textContent)
          IN  /\ text # << >> => Elements[n].text = text
              /\ (text = << >> /\ el.value # << >>) => Elements[n].text = el.value
              /\ (text = << >> /\ el.value = << >> /\ el.placeholder # << >>) =>
                    Elements[n].text = el.placeholder
              /\ (text = << >> /\ el.value = << >> /\ el.placeholder = << >>) =>
                    Elements[n].text = << >>

C25_Witness ==
    /\ SnapshotReturned
    /\ Len(Dom) = 2
    /\ Len(Elements) = 2
    /\ Dom[1].textContent = <<" ">> /\ Dom[1].value = <<"v">>
    /\ Dom[1].placeholder = <<"p">>
    /\ Elements[1].text = <<"v">>
    /\ Dom[2].textContent = <<" ", "t", " ">> /\ Dom[2].value = <<"v">>
    /\ Elements[2].text = <<"t">>

(* The engine's close, awaited by the call of slot s, fails in this step *)
CloseFails(s) == tasks[s].pc = "closing" /\ FailedIn(s)'

(* A close tool call starts in slot s in this step *)
CloseStarts(s) ==
    /\ tasks[s].pc = "idle"
    /\ \A o \in 1..(s - 1) : Pending(o)
    /\ dispatch'.name = "close"
    /\ nCalls' = nCalls + 1

(***************************************************************************)
(* C31: when the engine's close fails inside close(), the call ends with   *)
(* that failure, reported as the failure envelope of the close tool, and   *)
(* browser, context and page stay as they were, the browser still set; a   *)
(* close call that finds the browser set invokes the engine's close again. *)
(***************************************************************************)
C31_FailedCloseKeepsHandles ==
    [][\A s \in Slots :
          /\ CloseFails(s) =>
                /\ browser' = browser /\ context' = context /\ page' = page
                /\ engines' = engines
                /\ browser' = tasks[s].h
                /\ tasks'[s] = Idle
                /\ last'.err = answer'.msg
                /\ FailureEnvelope'
          /\ (CloseStarts(s) /\ browser # 0) =>
                /\ tasks'[s].pc = "closing"
                /\ tasks'[s].h = browser
                /\ closeCalls'[browser] = closeCalls[browser] + 1]_vars

C31_Witness ==
    /\ tasks[1].name = "close"
    /\ tasks[1].pc = "closing"
    /\ browser = 1
    /\ engines[1] = "live"
    /\ closeCalls[1] = 2

(* The fill the fill_form call of slot s awaits fails in this step *)
FillFails(s) == FillAnswered(s) /\ FailedIn(s)'

(* The place in the mapping, in insertion order, of the key sel *)
InsertedAt(fields, sel) == CHOOSE i \in DOMAIN fields : fields[i][1] = sel

(* The document holds what entry i of the mapping wrote *)
HoldsEntry(doc, fields, i) ==
    doc.fields[ElementOf(fields[i][1])] = fields[i][2]

(* The call of slot s ends in this step with the failure of its fill, the  *)
(* pages being left as they are                                            *)
EndsWithFailure(s) ==
    /\ tasks'[s] = Idle
    /\ FailureEnvelope'
    /\ last'.err = answer'.msg
    /\ pages' = pages

(***************************************************************************)
(* C32, as stated: when a fill of fillForm fails the call ends with that   *)
(* failure, nothing more is written, and every field that comes before the *)
(* failing one in the insertion order of the mapping holds the value       *)
(* written for it.                                                         *)
(***************************************************************************)
C32_EarlierInsertedFieldsWritten ==
    [][\A s \in Slots :
          FillFails(s) =>
             /\ EndsWithFailure(s)
             /\ DocOf(s).known =>
                   \A i \in 1..(InsertedAt(tasks[s].fields, tasks[s].op.sel) - 1) :
                      HoldsEntry(DocAfter(s), tasks[s].fields, i)]_vars

(***************************************************************************)
(* C32, amended: when a fill of fillForm fails the call ends with that     *)
(* failure and nothing more is written.  The fills are made in the order   *)
(* of Object.entries: in a mapping with a key that is an array index the   *)
(* first fill is for such a key and fails with nothing written; in a       *)
(* mapping without one the failing field is the next in insertion order    *)
(* and every field before it holds the value written for it, unless a      *)
(* later key before the failing one matches the same element.              *)
(***************************************************************************)
C32_StopsAtFirstFailure ==
    [][\A s \in Slots :
          FillFails(s) =>
             LET t == tasks[s]
                 k == Position(t)
             IN  /\ EndsWithFailure(s)
                 /\ (DocOf(s).known /\ IndexEntries(t.fields) # << >>) =>
                       k = 1 /\ ArrayIndex(t.op.sel) >= 0
                 /\ IndexEntries(t.fields) = << >> =>
                       /\ t.op.sel = t.fields[k][1]
                       /\ DocOf(s).known =>
                             \A i \in 1..(k - 1) :
                                (\A j \in (i + 1)..(k - 1) :
                                    ElementOf(t.fields[j][1]) # ElementOf(t.fields[i][1]))
                                => HoldsEntry(DocAfter(s), t.fields, i)]_vars

C32_Witness ==
    /\ FailedIn(1)
    /\ FailureEnvelope
    /\ last.name = "fill_form"
    /\ nCalls = 2
    /\ page # 0
    /\ pages[page].doc.known
    /\ pages[page].doc.fields["a"] = "x"
    /\ pages[page].doc.fields["b"] = ""

(***************************************************************************)
(* C33: a browser tool call that was suspended at an await while close()   *)
(* ran to completion, from the close tool or from a signal handler, ends   *)
(* with the dispatcher's failure envelope and never by throwing to the     *)
(* caller.                                                                 *)
(***************************************************************************)
C33_ClosedOverEndsInFailureEnvelope ==
    (ToolEnded /\ last.name \in BrowserTools /\ last.closedOver) =>
       /\ last.out.kind = "response"
       /\ FailureEnvelope

(* Only tool calls so far, none of them close, and no open sequence failed *)
OnlyToolCallsNoFailure ==
    hist \cap {"close", "launch", "openFailed"} = {}

(* The pages the calls in flight await an operation of *)
PagesAwaited == {tasks[s].h : s \in {o \in Slots : tasks[o].pc = "page"}}

(***************************************************************************)
(* C34: when tool calls are issued on an unopened session without waiting  *)
(* for one another, a later one starting while an earlier one is inside    *)
(* the open sequence, the engine is launched at most once and all of them  *)
(* work on one page, the page of the session.                              *)
(***************************************************************************)
C34_OverlappingCallsShareOneLaunch ==
    OnlyToolCallsNoFailure =>
       /\ launchCalls <= 1
       /\ Cardinality(Live) <= 1
       /\ \A h \in PagesAwaited : h = page

=============================================================================
